---------------------------- MODULE Spec2Model ----------------------------
(***************************************************************************)
(* A model of the Great Basin fire-danger pipeline: the FEMS fetcher      *)
(* (src/fems_fetcher.py: _query, fetch_forecast, aggregate_to_psa,        *)
(* fetch_gacc_data) and the dashboard's alert classifier (src/app.py:     *)
(* alert_level).                                                          *)
(*                                                                         *)
(* Numbers.  Every float of the program is a fixed-point integer in units *)
(* of 1/Unit = 0.05.  Station readings are multiples of 0.25 (5 units),   *)
(* so each reading, each sum and each tie of round(x, 1) is exactly       *)
(* representable as a double and Python's round() decides it half-to-even *)
(* on the exact value.  Values rounded to one decimal are multiples of    *)
(* 0.1 (2 units).  A JSON null is the empty tuple << >>, a JSON number x  *)
(* is the tuple <<x>>.                                                     *)
(*                                                                         *)
(* Dates.  A date is its proleptic Gregorian ordinal (date.toordinal());  *)
(* str(date) is the triple <<year, month, day>>, which orders and         *)
(* compares as the ISO string "YYYY-MM-DD" does.  The service's            *)
(* summary_date is taken to be written the same way.                       *)
(***************************************************************************)
EXTENDS Integers, Sequences, FiniteSets, TLC

\* ------------------------------------------------------------------ bounds

\* Number of consecutive calendar days "today" ranges over (all 7 weekdays).
NumTodays == 7
\* Largest number of records in one nfdrMinMax response.
MaxRecs == 2
\* The first "today": date(2024, 12, 27).toordinal(), a Friday, so that the
\* day maps run over the turn of a month and of a year.
FirstToday == 739247
\* Largest value and threshold of a call of alert_level, in units.
MaxLevel == 4

\* --------------------------------------------------------------- constants

\* Fixed-point scale: 20 units make 1.0 (0.05 per unit).
Unit == 20
\* _query(..., retries=3)
retries == 3
\* PSA_STATIONS, cut to two zones of the registry (3 stations).
PSA_IDS == <<"GB13", "GB22">>
PSA_STATIONS == [GB13 |-> <<260504, 260701>>, GB22 |-> <<261408>>]
\* all_ids = sorted(set(sid for info in PSA_STATIONS.values() for sid in info))
all_ids == <<260504, 260701, 261408>>

\* The eight day labels, in the order day_map is built (dict order).
DAY_LABELS == <<"yd", "td", "Wed", "Thu", "Fri", "Sat", "Sun", "Mon">>
\* A plausible slip: "ERC_Trend": trend_row, whose "td" was set last.
TREND_LABELS_td_last == <<"Wed", "Thu", "Fri", "Sat", "Sun", "Mon", "td">>

\* The labels of trend_row in ERC_Trend's key order.
TREND_LABELS == <<"td", "Wed", "Thu", "Fri", "Sat", "Sun", "Mon">>

\* ---------------------------------------------------------------- helpers

Range(s) == {s[i] : i \in 1..Len(s)}

Abs(x) == IF x < 0 THEN -x ELSE x

RECURSIVE SumSeq(_)
SumSeq(s) == IF s = << >> THEN 0 ELSE Head(s) + SumSeq(Tail(s))

RECURSIVE FlattenSeq(_)
FlattenSeq(ss) == IF ss = << >> THEN << >> ELSE Head(ss) \o FlattenSeq(Tail(ss))

\* --------------------------------------------------------------- calendar

\* date.weekday(): Monday is 0, Sunday is 6.
weekday(d) == (d + 6) % 7

IsLeap(y) == y % 4 = 0 /\ (y % 100 # 0 \/ y % 400 = 0)

DaysInMonth(y, m) ==
    IF m = 2 THEN (IF IsLeap(y) THEN 29 ELSE 28)
    ELSE IF m \in {4, 6, 9, 11} THEN 30 ELSE 31

DaysInYear(y) == IF IsLeap(y) THEN 366 ELSE 365

\* Days before January 1st of year y (datetime._days_before_year).
DaysBeforeYear(y) ==
    LET p == y - 1 IN p * 365 + (p \div 4) - (p \div 100) + (p \div 400)

RECURSIVE MonthOf(_, _, _)
\* The <<month, day>> of the n-th day (from 1) of year y, counting from month m.
MonthOf(y, m, n) ==
    IF n <= DaysInMonth(y, m) THEN <<m, n>>
    ELSE MonthOf(y, m + 1, n - DaysInMonth(y, m))

\* str(date): the ISO date of ordinal d as <<year, month, day>>.
DateStr(d) ==
    LET y0 == (d * 400) \div 146097 + 1
        y  == IF DaysBeforeYear(y0) >= d THEN y0 - 1
              ELSE IF d - DaysBeforeYear(y0) > DaysInYear(y0) THEN y0 + 1
              ELSE y0
        md == MonthOf(y, 1, d - DaysBeforeYear(y))
    IN  <<y, md[1], md[2]>>

\* a < b on ISO date strings (lexicographic).
StrLess(a, b) ==
    \/ a[1] < b[1]
    \/ a[1] = b[1] /\ a[2] < b[2]
    \/ a[1] = b[1] /\ a[2] = b[2] /\ a[3] < b[3]


\* ---------------------------------------------------------------- numbers

\* JSON null and JSON numbers of a response body.
Null == << >>
Num(x) == <<x>>

\* float(x or 0): null and 0 become 0.0, any other number itself.
FloatOrZero(x) == IF x = Null THEN 0 ELSE x[1]

\* The integer nearest to num/den (den > 0), an exact tie going to the even one.
RoundHalfEven(num, den) ==
    LET q == num \div den
        r == num % den
    IN  IF 2 * r < den THEN q
        ELSE IF 2 * r > den THEN q + 1
        ELSE IF q % 2 = 0 THEN q ELSE q + 1

\* round(num/den, 1) in units: a multiple of 0.1, which is Unit \div 10 units.
Round1(num, den) == (Unit \div 10) * RoundHalfEven(num, (Unit \div 10) * den)

\* ------------------------------------------------------------- _safe_mean

\* vals = [v for v in values if v and v > 0]
ValidVals(values) == SelectSeq(values, LAMBDA v : v # 0 /\ v > 0)

\* A plausible slip: round(mean(vals)) without the number of digits.
safe_mean_rounds_to_integer(values) ==
    LET vals == ValidVals(values)
    IN  IF vals # << >>
        THEN Unit * RoundHalfEven(SumSeq(vals), Unit * Len(vals))
        ELSE 0

\* round(mean(vals), 1) if vals else 0.0
safe_mean(values) ==
    LET vals == ValidVals(values)
    IN  IF vals # << >> THEN Round1(SumSeq(vals), Len(vals)) ELSE 0

\* ---------------------------------------------------------------- day_map

\* A plausible slip: the "or 7" is forgotten, today is its own next weekday.
next_weekday_same_day(d, wd) == d + ((wd - weekday(d)) % 7)

\* next_weekday(d, wd): days = (wd - d.weekday()) % 7 or 7
next_weekday(d, wd) ==
    LET days == (wd - weekday(d)) % 7
    IN  d + (IF days = 0 THEN 7 ELSE days)

\* A plausible slip: "yd" is given today's date.
LabelDate_yd_is_today(today, label) ==
    CASE label = "yd"  -> today
      [] label = "td"  -> today
      [] label = "Wed" -> next_weekday(today, 2)
      [] label = "Thu" -> next_weekday(today, 3)
      [] label = "Fri" -> next_weekday(today, 4)
      [] label = "Sat" -> next_weekday(today, 5)
      [] label = "Sun" -> next_weekday(today, 6)
      [] label = "Mon" -> next_weekday(today, 0)

\* The calendar date (ordinal) each label of day_map stands for.
LabelDate(today, label) ==
    CASE label = "yd"  -> today - 1
      [] label = "td"  -> today
      [] label = "Wed" -> next_weekday(today, 2)
      [] label = "Thu" -> next_weekday(today, 3)
      [] label = "Fri" -> next_weekday(today, 4)
      [] label = "Sat" -> next_weekday(today, 5)
      [] label = "Sun" -> next_weekday(today, 6)
      [] label = "Mon" -> next_weekday(today, 0)

\* day_map: label -> str(date)
day_map(today) == [label \in Range(DAY_LABELS) |-> DateStr(LabelDate(today, label))]

\* fetch_forecast's window: yesterday and
\* monday = today + timedelta(days=(7 - today.weekday()) % 7 or 7)
WindowStart(today) == today - 1
WindowEnd(today) ==
    LET days == (7 - weekday(today)) % 7
    IN  today + (IF days = 0 THEN 7 ELSE days)

\* ---------------------------------------------------------- fetch_forecast

\* The stable sort of results[sid].sort(key=lambda x: x["date"]): x goes behind
\* every element of the sorted list t whose date is not later than its own.
InsertByDate(x, t) ==
    LET k == Cardinality({i \in 1..Len(t) : ~StrLess(x.date, t[i].date)})
    IN  SubSeq(t, 1, k) \o <<x>> \o SubSeq(t, k + 1, Len(t))

RECURSIVE SortByDate(_)
SortByDate(s) ==
    IF s = << >> THEN << >>
    ELSE InsertByDate(s[Len(s)], SortByDate(SubSeq(s, 1, Len(s) - 1)))

\* dict.get(key, default)
Get(d, key, default) == IF key \in DOMAIN d THEN d[key] ELSE default

\* rec["station_id"] or rec["summary_date"] raises KeyError for a record of data.
KeyErrorIn(data) ==
    \E i \in 1..Len(data) :
        ~({"station_id", "summary_date"} \subseteq DOMAIN data[i])

\* One record of data["nfdrMinMax"]["data"] as fetch_forecast appends it.
ParseForecastRec(rec) ==
    [date |-> rec.summary_date,
     erc  |-> FloatOrZero(Get(rec, "energy_release_component_max", Null)),
     fm   |-> FloatOrZero(Get(rec, "hun_hr_tl_fuel_moisture_min", Null)),
     type |-> Get(rec, "nfdr_type", "O")]

\* The records of one station, in response order.
RecsOf(data, sid) == SelectSeq(data, LAMBDA rec : rec.station_id = sid)

\* The results dict of fetch_forecast for the response records `data`.
ParseForecast(data) ==
    [sid \in {data[i].station_id : i \in 1..Len(data)} |->
        SortByDate([i \in 1..Len(RecsOf(data, sid)) |->
                        ParseForecastRec(RecsOf(data, sid)[i])])]

\* ------------------------------------------- fetch_percentile_thresholds

\* The last record of `data` for station sid: results[sid] = ... overwrites.
LastRecOf(data, sid) == LET rs == RecsOf(data, sid) IN rs[Len(rs)]

\* The results dict of fetch_percentile_thresholds.
ParsePercentiles(data) ==
    [sid \in {data[i].station_id : i \in 1..Len(data)} |->
        LET rec == LastRecOf(data, sid)
        IN  [erc_p90 |-> FloatOrZero(rec.erc_90th),
             erc_p97 |-> FloatOrZero(rec.erc_97th),
             fm_p90  |-> FloatOrZero(rec.fm_90th),
             fm_p97  |-> FloatOrZero(rec.fm_97th)]]

\* The results dict of fetch_climo_mean.
ParseClimo(data) ==
    [sid \in {data[i].station_id : i \in 1..Len(data)} |->
        LET rec == LastRecOf(data, sid)
        IN  [erc_mean |-> FloatOrZero(rec.erc_avg),
             fm_mean  |-> FloatOrZero(rec.fm_avg)]]

\* merged.update(fetch_fn(chunk)): the keys of `new` replace those of `merged`.
\* _batched cuts all_ids into chunks of 250, so the stations of the model make
\* one chunk; the time.sleep(0.3) behind each chunk changes no state.
DictUpdate(merged, new) ==
    [k \in DOMAIN merged \cup DOMAIN new |->
        IF k \in DOMAIN new THEN new[k] ELSE merged[k]]

\* The empty dict.
EmptyDict == [k \in {} |-> 0]

\* ------------------------------------------------------- aggregate_to_psa

\* [d[s][key] for s in station_ids if s in d]
Column(d, station_ids, key) ==
    LET present == SelectSeq(station_ids, LAMBDA s : s \in DOMAIN d)
    IN  [i \in 1..Len(present) |-> d[present[i]][key]]

\* The values one station appends to a label's list: those of its records on
\* the label's date whose value is > 0, in the order of forecasts[sid].
StationVals(forecasts, sid, target, key) ==
    IF sid \in DOMAIN forecasts
    THEN LET obs == SelectSeq(forecasts[sid],
                              LAMBDA o : o.date = target /\ o[key] > 0)
         IN  [i \in 1..Len(obs) |-> obs[i][key]]
    ELSE << >>

\* A plausible slip: erc_by_day[label] = [obs["erc"]] in place of the append,
\* so that the value read last stands alone.
by_day_overwrites(forecasts, station_ids, today, key) ==
    [label \in Range(DAY_LABELS) |->
        LET target == day_map(today)[label]
            all == FlattenSeq([i \in 1..Len(station_ids) |->
                      StationVals(forecasts, station_ids[i], target, key)])
        IN  IF all = << >> THEN << >> ELSE <<all[Len(all)]>>]

\* erc_by_day / fm_by_day: label -> list of values, stations in list order.
by_day(forecasts, station_ids, today, key) ==
    [label \in Range(DAY_LABELS) |->
        LET target == day_map(today)[label]
        IN  FlattenSeq([i \in 1..Len(station_ids) |->
                StationVals(forecasts, station_ids[i], target, key)])]

\* erc_row / fm_row: label -> _safe_mean(vals)
day_row(vals_by_day) ==
    [label \in Range(DAY_LABELS) |-> safe_mean(vals_by_day[label])]

\* A plausible slip: the trend is taken against yesterday, today included.
trend_row_vs_yesterday(erc_by_day) ==
    [label \in Range(TREND_LABELS) |->
        Round1(safe_mean(erc_by_day[label]) - safe_mean(erc_by_day["yd"]), 1)]

\* A plausible slip: the trend is today minus the forecast day.
trend_row_reversed(erc_by_day) ==
    LET today_erc == day_row(erc_by_day)["td"]
    IN  [label \in Range(TREND_LABELS) |->
            IF label = "td" THEN 0
            ELSE Round1(today_erc - safe_mean(erc_by_day[label]), 1)]

\* ERC_Trend: each forecast day minus today's observed, and "td": 0.0.
trend_row(erc_by_day) ==
    LET today_erc == day_row(erc_by_day)["td"]
    IN  [label \in Range(TREND_LABELS) |->
            IF label = "td" THEN 0
            ELSE Round1(safe_mean(erc_by_day[label]) - today_erc, 1)]

\* A plausible slip: every station of any zone that returned data is counted.
stations_with_data_any_zone(station_ids, forecasts) == Cardinality(DOMAIN forecasts)

\* len([s for s in station_ids if s in forecasts])
stations_with_data(station_ids, forecasts) ==
    Len(SelectSeq(station_ids, LAMBDA s : s \in DOMAIN forecasts))

\* The row of one field: the eight day values and the three reference values.
field_row(row, climo, p90, p97) ==
    [k \in Range(DAY_LABELS) \cup {"Climo_Mean", "Pctile_90", "Pctile_97"} |->
        CASE k = "Climo_Mean" -> safe_mean(climo)
          [] k = "Pctile_90"  -> safe_mean(p90)
          [] k = "Pctile_97"  -> safe_mean(p97)
          [] OTHER            -> row[k]]

\* The dict aggregate_to_psa returns (fetched_at, a wall-clock stamp, left out).
aggregate_to_psa(psa_id, station_ids, percentiles, climo_means, forecasts, today) ==
    LET erc_by_day == by_day(forecasts, station_ids, today, "erc")
        fm_by_day  == by_day(forecasts, station_ids, today, "fm")
    IN  [PSA        |-> psa_id,
         fuel_model |-> "Y",
         day_labels |-> day_map(today),
         ERC        |-> field_row(day_row(erc_by_day),
                                  Column(climo_means, station_ids, "erc_mean"),
                                  Column(percentiles, station_ids, "erc_p90"),
                                  Column(percentiles, station_ids, "erc_p97")),
         FM         |-> field_row(day_row(fm_by_day),
                                  Column(climo_means, station_ids, "fm_mean"),
                                  Column(percentiles, station_ids, "fm_p90"),
                                  Column(percentiles, station_ids, "fm_p97")),
         ERC_Trend  |-> trend_row(erc_by_day),
         station_count      |-> Len(station_ids),
         stations_with_data |-> stations_with_data(station_ids, forecasts)]

\* ---------------------------------------------------- the snapshot as text

\* The dict fetch_gacc_data builds as output (fetched_at, a wall-clock stamp,
\* left out).
Snapshot(fetch_date, psa) ==
    [meta |-> [gacc |-> "Great Basin", fetch_date |-> DateStr(fetch_date),
               climo_start |-> "2005", climo_end |-> "2020", fuel_model |-> "Y",
               psa_count |-> Cardinality(DOMAIN psa),
               station_count |-> Len(all_ids)],
     psa  |-> psa]

\* The keys of the dicts of a snapshot, in the order they are inserted.
META_KEYS == <<"gacc", "fetch_date", "climo_start", "climo_end", "fuel_model",
               "psa_count", "station_count">>
PSA_KEYS == <<"PSA", "fuel_model", "day_labels", "ERC", "FM", "ERC_Trend",
              "station_count", "stations_with_data">>
FIELD_KEYS == DAY_LABELS \o <<"Climo_Mean", "Pctile_90", "Pctile_97">>

\* The text json.dumps writes is a sequence of tokens: the punctuation
\* { } : , a string literal, or a number literal, which is a sign, the digits
\* before the point as a number and the digits behind it one by one (none for
\* an int).  The white space of indent=2 is left out.
Tok(t) == [t |-> t]
StrTok(str) == [t |-> "str", v |-> str]

\* A plausible slip: the floats are written with no digit behind the point.
dumps_float_no_decimals(x) ==
    [t |-> "num", neg |-> x < 0, int |-> RoundHalfEven(Abs(x), Unit),
     frac |-> << >>]

\* float.__repr__ of x units: the shortest decimal that reads back as x; with
\* 0.05 to the unit that is one digit behind the point, or two.
dumps_float(x) ==
    LET hundredths == (Abs(x) % Unit) * (100 \div Unit)
    IN  [t |-> "num", neg |-> x < 0, int |-> Abs(x) \div Unit,
         frac |-> IF hundredths % 10 = 0 THEN <<hundredths \div 10>>
                  ELSE <<hundredths \div 10, hundredths % 10>>]

\* int.__repr__
dumps_int(n) == [t |-> "num", neg |-> n < 0, int |-> Abs(n), frac |-> << >>]

RECURSIVE dumps_items(_, _)
\* "key": value, "key": value ... of the keys and the texts of their values
dumps_items(keys, texts) ==
    IF keys = << >> THEN << >>
    ELSE <<StrTok(Head(keys)), Tok(":")>> \o Head(texts)
             \o (IF Len(keys) > 1 THEN <<Tok(",")>> ELSE << >>)
             \o dumps_items(Tail(keys), Tail(texts))

\* A dict, its items in the order of keys.
dumps_dict(keys, texts) == <<Tok("{")>> \o dumps_items(keys, texts) \o <<Tok("}")>>

\* A dict of floats, and one of strings.
dumps_floats(keys, d) ==
    dumps_dict(keys, [i \in 1..Len(keys) |-> <<dumps_float(d[keys[i]])>>])
dumps_strs(keys, d) ==
    dumps_dict(keys, [i \in 1..Len(keys) |-> <<StrTok(d[keys[i]])>>])

\* One entry of output["psa"].
dumps_psa(e) ==
    dumps_dict(PSA_KEYS,
        << <<StrTok(e.PSA)>>, <<StrTok(e.fuel_model)>>,
           dumps_strs(DAY_LABELS, e.day_labels),
           dumps_floats(FIELD_KEYS, e.ERC), dumps_floats(FIELD_KEYS, e.FM),
           dumps_floats(TREND_LABELS, e.ERC_Trend),
           <<dumps_int(e.station_count)>>, <<dumps_int(e.stations_with_data)>> >>)

\* json.dumps(output, indent=2); psa_data holds its zones in the order of
\* PSA_STATIONS.
json_dumps(output) ==
    LET zones == SelectSeq(PSA_IDS, LAMBDA z : z \in DOMAIN output.psa)
        m     == output.meta
    IN  dumps_dict(<<"meta", "psa">>,
            << dumps_dict(META_KEYS,
                   << <<StrTok(m.gacc)>>, <<StrTok(m.fetch_date)>>,
                      <<StrTok(m.climo_start)>>, <<StrTok(m.climo_end)>>,
                      <<StrTok(m.fuel_model)>>, <<dumps_int(m.psa_count)>>,
                      <<dumps_int(m.station_count)>> >>),
               dumps_dict(zones, [i \in 1..Len(zones) |->
                                     dumps_psa(output.psa[zones[i]])]) >>)

\* The number a number literal reads as: an int without digits behind the
\* point, else a float in units.
loads_number(tok) ==
    LET sign == IF tok.neg THEN -1 ELSE 1
        hundredths == IF Len(tok.frac) = 1 THEN 10 * tok.frac[1]
                      ELSE 10 * tok.frac[1] + tok.frac[2]
    IN  IF tok.frac = << >> THEN sign * tok.int
        ELSE sign * (tok.int * Unit + hundredths \div (100 \div Unit))

RECURSIVE parse_value(_, _), parse_members(_, _, _)
\* The value that starts at text[i] and the index behind it: an object is
\* [obj |-> its <<key, value>> pairs in text order], a string or a number is
\* [atom |-> it].
parse_value(text, i) ==
    CASE text[i].t = "str" -> [node |-> [atom |-> text[i].v], i |-> i + 1]
      [] text[i].t = "num" -> [node |-> [atom |-> loads_number(text[i])], i |-> i + 1]
      [] text[i].t = "{"   ->
            IF text[i + 1].t = "}" THEN [node |-> [obj |-> << >>], i |-> i + 2]
            ELSE parse_members(text, i + 1, << >>)

\* The members of an object from the key at text[i] on, behind `pairs`.
parse_members(text, i, pairs) ==
    LET val == parse_value(text, i + 2)
        ps  == Append(pairs, <<text[i].v, val.node>>)
    IN  IF text[val.i].t = "," THEN parse_members(text, val.i + 1, ps)
        ELSE [node |-> [obj |-> ps], i |-> val.i + 1]

RECURSIVE to_dict(_)
\* The Python value of a parsed node: a dict for an object (the last of equal
\* keys wins).
to_dict(node) ==
    IF "obj" \in DOMAIN node
    THEN LET ps == node.obj
         IN  [k \in {ps[j][1] : j \in 1..Len(ps)} |->
                 LET last == CHOOSE j \in 1..Len(ps) :
                                 /\ ps[j][1] = k
                                 /\ \A h \in (j + 1)..Len(ps) : ps[h][1] # k
                 IN  to_dict(ps[last][2])]
    ELSE node.atom

\* Braces opened and not closed in the first n tokens of text.
Depth(text, n) ==
    Cardinality({i \in 1..n : text[i].t = "{"})
        - Cardinality({i \in 1..n : text[i].t = "}"})

\* json.loads accepts the text: of the texts a writer of snapshots can leave
\* (a snapshot's text, cut anywhere, or several behind each other) those that
\* are one whole object.
IsJson(text) ==
    /\ text # << >>
    /\ Depth(text, Len(text)) = 0
    /\ \A n \in 1..(Len(text) - 1) : Depth(text, n) > 0

\* json.loads(text) of a text it accepts.
json_loads(text) == to_dict(parse_value(text, 1).node)

\* ------------------------------------------------------------ the service

\* The (ERC max, FM min) pairs a station record of the feed may carry:
\* (null, 10.0), (-0.25, 0), (10.25, 0), (10.75, 10.0).
Readings ==
    { <<Null, Num(200)>>, <<Num(-5), Num(0)>>,
      <<Num(205), Num(0)>>, <<Num(215), Num(200)>> }

\* The records the service may return for the window of `today`: any station,
\* dated today (an observation) or tomorrow (a forecast).
ForecastRecords(today) ==
    { [station_id   |-> sid,
       summary_date |-> DateStr(d),
       energy_release_component_max |-> r[1],
       hun_hr_tl_fuel_moisture_min  |-> r[2],
       nfdr_type    |-> IF d <= today THEN "O" ELSE "F"] :
      sid \in Range(all_ids), d \in {today, today + 1}, r \in Readings }

\* The bodies of nfdrMinMax.data: up to MaxRecs records in any order.
ForecastResponses(today) ==
    UNION { [1..n -> ForecastRecords(today)] : n \in 0..MaxRecs }

\* Bodies whose records lack the field entries, or the station or the date:
\* a record of the last station with nothing but its key and today's date, a
\* record without station_id, a record without summary_date.
SparseResponses(today) ==
    { << [station_id |-> all_ids[Len(all_ids)], summary_date |-> DateStr(today)] >>,
      << [summary_date |-> DateStr(today),
          energy_release_component_max |-> Num(205),
          hun_hr_tl_fuel_moisture_min  |-> Num(200), nfdr_type |-> "O"] >>,
      << [station_id |-> all_ids[1],
          energy_release_component_max |-> Num(205),
          hun_hr_tl_fuel_moisture_min  |-> Num(200), nfdr_type |-> "O"] >> }

\* The body of percentileLevels.data: the service knows no climatology of the
\* last station, and no 97th percentile of fuel moisture.
PercentileResponses ==
    { [i \in 1..(Len(all_ids) - 1) |->
          [station_id |-> all_ids[i],
           erc_90th |-> Num(1000 + 5 * i), erc_97th |-> Num(1200 + 5 * i),
           fm_90th  |-> Num(100),          fm_97th  |-> Null]] }

\* The bodies of percentileAvgMinMax.data.
ClimoResponses ==
    { [i \in 1..Len(all_ids) |->
          [station_id |-> all_ids[i],
           erc_avg |-> Num(800 + 5 * i), fm_avg |-> Num(240)]] }

\* ------------------------------------------------------------------ state

VARIABLES
    today,          \* date.today(), read by fetch_forecast, by aggregate_to_psa
                    \* and for meta.fetch_date: a cycle within one calendar day
    FEMS_API_KEY,   \* the module's credentials, set by the caller
    FEMS_USERNAME,
    pc,             \* where fetch_gacc_data stands
    attempt,        \* _query's loop variable (0: after the last _query call)
    sleeps,         \* the time.sleep() calls of the running _query call, seconds
    sent,           \* the requests.post() calls of it that sent a request
    r,              \* its local r: <<status_code>> of the latest response
                    \* (<< >>: unbound)
    percentiles,    \* fetch_gacc_data's locals
    climo_means,
    forecasts,
    psa_data,
    output_file,    \* the text of output_path, deserialized
    forecast_query, \* the variables of fetch_forecast's request (<< >>: none yet)
    raised,         \* the exception fetch_gacc_data ended with ("" for none);
                    \* pc then stays where it was raised
    val, p90, p95, p97,   \* the arguments of a call of alert_level
    level,          \* what that call returned (<< >> before the call)
    file_text,      \* the characters of output_path, as tokens, where the write
                    \* is followed step by step (output_file: where it is one)
    written,        \* how many tokens of its data write_text has written
    cached,         \* <<text>> once a load_cached call has read the file
    app_pc,         \* where app.py's main stands
    config_file,    \* gacc_config.py: "missing" or "present"
    baseline_file,  \* gacc_climo_baseline.json: "missing", "unreadable" (no
                    \* JSON) or "present"
    gacc_config,    \* main's locals, << >> while unbound, <<value>> once bound
    baseline,
    api_key,
    username,
    dummy_meta,
    source,
    fetches,        \* the fetch cycles load_live has started
    main_raised,    \* the exception that left main ("" for none)
    cyc_pc,         \* two load_live calls that run in one process, each with
    cyc_args,       \* its position, its arguments api_key and username,
    cyc_headers,    \* the headers of the requests it has sent,
    cyc_output,     \* the output it has built (<< >> before)
    cyc_pos         \* and the position of its open file in output_path

cycleVars == <<today, FEMS_API_KEY, FEMS_USERNAME, pc, attempt, sleeps, sent, r, percentiles,
               climo_means, forecasts, psa_data, output_file, forecast_query,
               raised>>
alertVars == <<val, p90, p95, p97, level>>
fileVars == <<file_text, written, cached>>
appVars == <<app_pc, config_file, baseline_file, gacc_config, baseline, api_key,
             username, dummy_meta, source, fetches, main_raised>>
twoVars == <<cyc_pc, cyc_args, cyc_headers, cyc_output, cyc_pos>>
vars == <<cycleVars, alertVars, fileVars, appVars, twoVars>>

\* The snapshot an earlier cycle left in output_path: that of the day before
\* FirstToday, when the first station reported an ERC of 50.0.
PreviousForecasts ==
    ParseForecast(<< [station_id   |-> all_ids[1],
                      summary_date |-> DateStr(FirstToday - 1),
                      energy_release_component_max |-> Num(50 * Unit),
                      hun_hr_tl_fuel_moisture_min  |-> Num(10 * Unit),
                      nfdr_type    |-> "O"] >>)
PreviousSnapshot ==
    Snapshot(FirstToday - 1,
             [z \in Range(PSA_IDS) |->
                 aggregate_to_psa(z, PSA_STATIONS[z], EmptyDict, EmptyDict,
                                  PreviousForecasts, FirstToday - 1)])

\* No call of alert_level is under way.
AlertIdle ==
    /\ val = Null /\ p90 = Null /\ p95 = Null /\ p97 = Null
    /\ level = << >>

\* The write of output_path is not followed step by step.
FileIdle == file_text = << >> /\ written = 0 /\ cached = << >>

\* No two load_live calls are followed side by side.
TwoIdle ==
    /\ cyc_pc = << >> /\ cyc_args = << >> /\ cyc_headers = << >>
    /\ cyc_output = << >> /\ cyc_pos = << >>

\* The dashboard's main is not running.
AppIdle ==
    /\ app_pc = "" /\ config_file = "present" /\ baseline_file = "present"
    /\ gacc_config = << >> /\ baseline = << >> /\ api_key = "" /\ username = ""
    /\ dummy_meta = << >> /\ source = "" /\ fetches = 0 /\ main_raised = ""

Init ==
    /\ AlertIdle
    /\ FileIdle
    /\ AppIdle
    /\ TwoIdle
    /\ FEMS_USERNAME = "user"
    /\ today \in FirstToday..(FirstToday + NumTodays - 1)
    /\ FEMS_API_KEY \in {"", "key"}
    /\ pc = "percentiles"
    /\ attempt = 1
    /\ sleeps = << >>
    /\ sent = 0
    /\ r = << >>
    /\ percentiles = EmptyDict
    /\ climo_means = EmptyDict
    /\ forecasts = EmptyDict
    /\ psa_data = EmptyDict
    /\ output_file = PreviousSnapshot
    /\ forecast_query = << >>
    /\ raised = ""

\* ----------------------------------------------------------------- _query

\* A _query call of fetch_gacc_data is running, about to make attempt `attempt`.
InQuery ==
    /\ pc \in {"percentiles", "climo", "forecasts"}
    /\ raised = ""
    /\ attempt \in 1..retries

\* A plausible slip: output_path is opened for writing when the cycle starts,
\* and an exception leaves it empty.
Raise_with_file_open(e) ==
    /\ raised' = e
    /\ output_file' = EmptyDict
    /\ UNCHANGED <<today, FEMS_API_KEY, FEMS_USERNAME, pc, attempt, sleeps, percentiles,
                   climo_means, forecasts, psa_data, forecast_query,
                   alertVars, fileVars, appVars, twoVars>>

\* Exception e leaves _query and, caught nowhere, fetch_gacc_data: nothing is
\* written.
Raise(e) ==
    /\ raised' = e
    /\ UNCHANGED <<today, FEMS_API_KEY, FEMS_USERNAME, pc, attempt, sleeps, percentiles,
                   climo_means, forecasts, psa_data, output_file, forecast_query,
                   alertVars, fileVars, appVars, twoVars>>

\* A plausible slip: 2 ** (attempt - 1), a backoff that starts at one second.
Backoff_from_one ==
    /\ attempt < retries
    /\ sleeps' = Append(sleeps, 2 ^ (attempt - 1))
    /\ attempt' = attempt + 1
    /\ UNCHANGED <<today, FEMS_API_KEY, FEMS_USERNAME, pc, percentiles, climo_means,
                   forecasts, psa_data, output_file, forecast_query, raised,
                   alertVars, fileVars, appVars, twoVars>>

\* if attempt < retries: time.sleep(2 ** attempt), and the loop goes on.
Backoff ==
    /\ attempt < retries
    /\ sleeps' = Append(sleeps, 2 ^ attempt)
    /\ attempt' = attempt + 1
    /\ UNCHANGED <<today, FEMS_API_KEY, FEMS_USERNAME, pc, percentiles, climo_means,
                   forecasts, psa_data, output_file, forecast_query, raised,
                   alertVars, fileVars, appVars, twoVars>>

\* requests.post(...) sent the request and r is bound to a response with
\* this status code.
Response(status_code) ==
    /\ sent' = sent + 1
    /\ r' = <<status_code>>

\* A plausible slip: _headers() does not test the key, the request goes out
\* with an empty x-api-key and the service refuses it.
AttemptNoKey_sends ==
    /\ InQuery
    /\ FEMS_API_KEY = ""
    /\ Response(401)
    /\ Raise("PermissionError")

\* _headers() raises EnvironmentError before anything is sent; _query's
\* "except Exception" retries it and re-raises it on the last attempt.
AttemptNoKey ==
    /\ InQuery
    /\ FEMS_API_KEY = ""
    /\ UNCHANGED <<sent, r>>
    /\ \/ Backoff
       \/ attempt = retries /\ Raise("EnvironmentError")

\* A plausible slip: "return {}" behind the loop in place of the raise, so
\* that a call whose attempts all timed out returns an empty result.
AttemptTimeout_returns_empty ==
    /\ InQuery
    /\ FEMS_API_KEY # ""
    /\ sent' = sent + 1
    /\ UNCHANGED r
    /\ \/ Backoff
       \/ /\ attempt = retries
          /\ pc' = CASE pc = "percentiles" -> "climo"
                      [] pc = "climo"       -> "forecasts"
                      [] pc = "forecasts"   -> "aggregate"
          /\ attempt' = 1
          /\ sleeps' = << >>
          /\ UNCHANGED <<today, FEMS_API_KEY, FEMS_USERNAME, percentiles, climo_means,
                         forecasts, psa_data, output_file, forecast_query, raised,
                         alertVars, fileVars, appVars, twoVars>>

\* requests.exceptions.Timeout: the request went out, r is not assigned; the
\* last attempt falls out of the loop to raise RuntimeError("All 3 attempts
\* failed").
AttemptTimeout ==
    /\ InQuery
    /\ FEMS_API_KEY # ""
    /\ sent' = sent + 1
    /\ UNCHANGED r
    /\ \/ Backoff
       \/ attempt = retries /\ Raise("RuntimeError")

\* A plausible slip: 401 and 403 are handled like any other HTTP error.
AttemptAuthFailure_retried ==
    /\ InQuery
    /\ FEMS_API_KEY # ""
    /\ \E status_code \in {401, 403} : Response(status_code)
    /\ \/ Backoff
       \/ attempt = retries /\ Raise("HTTPError")

\* HTTPError with status 401 or 403: PermissionError, at once.
AttemptAuthFailure ==
    /\ InQuery
    /\ FEMS_API_KEY # ""
    /\ \E status_code \in {401, 403} : Response(status_code)
    /\ Raise("PermissionError")

\* Any other HTTPError (here 404, 500, 503): retried, re-raised on the last
\* attempt.
AttemptHttpError ==
    /\ InQuery
    /\ FEMS_API_KEY # ""
    /\ \E status_code \in {404, 500, 503} : Response(status_code)
    /\ \/ Backoff
       \/ attempt = retries /\ Raise("HTTPError")

\* A 200 whose body is empty or no JSON: r.json() raises JSONDecodeError, which
\* "except Exception" retries and re-raises on the last attempt.
AttemptBadBody ==
    /\ InQuery
    /\ FEMS_API_KEY # ""
    /\ Response(200)
    /\ \/ Backoff
       \/ attempt = retries /\ Raise("JSONDecodeError")

\* "errors" in body (ValueError): retried, re-raised on the last attempt.
AttemptGraphQLErrors ==
    /\ InQuery
    /\ FEMS_API_KEY # ""
    /\ Response(200)
    /\ \/ Backoff
       \/ attempt = retries /\ Raise("ValueError")

\* ------------------------------------------------------- fetch_gacc_data

\* _query returns body["data"] of a 200; the next _query call starts with
\* attempt 1 and its own locals.
Returned ==
    /\ InQuery
    /\ FEMS_API_KEY # ""
    /\ attempt' = 1
    /\ sleeps' = << >>
    /\ sent' = 0
    /\ r' = << >>

\* [1/3] percentiles = _fetch_batched(all_ids, fetch_percentile_thresholds)
FetchPercentiles ==
    /\ pc = "percentiles"
    /\ Returned
    /\ \E data \in PercentileResponses :
          percentiles' = DictUpdate(percentiles, ParsePercentiles(data))
    /\ pc' = "climo"
    /\ UNCHANGED <<today, FEMS_API_KEY, FEMS_USERNAME, climo_means, forecasts, psa_data,
                   output_file, forecast_query, raised, alertVars,
                   fileVars, appVars, twoVars>>

\* [2/3] climo_means = _fetch_batched(all_ids, fetch_climo_mean)
FetchClimo ==
    /\ pc = "climo"
    /\ Returned
    /\ \E data \in ClimoResponses :
          climo_means' = DictUpdate(climo_means, ParseClimo(data))
    /\ pc' = "forecasts"
    /\ UNCHANGED <<today, FEMS_API_KEY, FEMS_USERNAME, percentiles, forecasts, psa_data,
                   output_file, forecast_query, raised, alertVars,
                   fileVars, appVars, twoVars>>

\* [3/3] forecasts = _fetch_batched(all_ids, fetch_forecast); a KeyError of
\* fetch_forecast leaves fetch_gacc_data as the exceptions of _query do.
FetchForecasts ==
    /\ pc = "forecasts"
    /\ Returned
    /\ forecast_query' = [ids   |-> all_ids,
                          start |-> DateStr(WindowStart(today)),
                          end   |-> DateStr(WindowEnd(today))]
    /\ \E data \in ForecastResponses(today) \cup SparseResponses(today) :
          IF KeyErrorIn(data)
          THEN /\ raised' = "KeyError"
               /\ UNCHANGED <<pc, forecasts>>
          ELSE /\ forecasts' = DictUpdate(forecasts, ParseForecast(data))
               /\ pc' = "aggregate"
               /\ UNCHANGED raised
    /\ UNCHANGED <<today, FEMS_API_KEY, FEMS_USERNAME, percentiles, climo_means, psa_data,
                   output_file, alertVars,
                   fileVars, appVars, twoVars>>

\* One turn of "for psa_id, station_ids in PSA_STATIONS.items()".
AggregateZone ==
    /\ pc = "aggregate"
    /\ LET k == Cardinality(DOMAIN psa_data) + 1
           psa_id == PSA_IDS[k]
       IN  /\ psa_data' =
                 [z \in DOMAIN psa_data \cup {psa_id} |->
                     IF z = psa_id
                     THEN aggregate_to_psa(psa_id, PSA_STATIONS[psa_id], percentiles,
                                           climo_means, forecasts, today)
                     ELSE psa_data[z]]
           /\ pc' = IF k = Len(PSA_IDS) THEN "write" ELSE "aggregate"
    /\ UNCHANGED <<today, FEMS_API_KEY, FEMS_USERNAME, attempt, sleeps, sent, r, percentiles,
                   climo_means, forecasts, output_file, forecast_query, raised,
                   alertVars, fileVars, appVars, twoVars>>

\* The dict fetch_gacc_data writes and returns.
Output == Snapshot(today, psa_data)

\* A plausible slip: the write stands inside the loop over the zones.
WriteSnapshot_in_loop ==
    /\ pc \in {"aggregate", "write"}
    /\ psa_data # EmptyDict
    /\ output_file' = Output
    /\ pc' = "done"
    /\ attempt' = 0
    /\ UNCHANGED <<today, FEMS_API_KEY, FEMS_USERNAME, sleeps, sent, r, percentiles, climo_means,
                   forecasts, psa_data, forecast_query, raised, alertVars,
                   fileVars, appVars, twoVars>>

\* Path(output_path).write_text(json.dumps(output, indent=2)); return output
WriteSnapshot ==
    /\ pc = "write"
    /\ output_file' = Output
    /\ pc' = "done"
    /\ attempt' = 0
    /\ UNCHANGED <<today, FEMS_API_KEY, FEMS_USERNAME, sleeps, sent, r, percentiles, climo_means,
                   forecasts, psa_data, forecast_query, raised, alertVars,
                   fileVars, appVars, twoVars>>

Next ==
    \/ AttemptNoKey
    \/ AttemptTimeout
    \/ AttemptAuthFailure
    \/ AttemptHttpError
    \/ AttemptBadBody
    \/ AttemptGraphQLErrors
    \/ FetchPercentiles
    \/ FetchClimo
    \/ FetchForecasts
    \/ AggregateZone
    \/ WriteSnapshot

Spec == Init /\ [][Next]_vars

\* ------------------------------------------------------------ alert_level

\* Python's truth value of a threshold: None and 0 are false.
Truthy(x) == x # Null /\ x[1] # 0

\* A plausible slip: the tiers are tested in ascending order of severity.
alert_level_ascending(v, t90, t95, t97) ==
    IF v = Null THEN "UNKNOWN"
    ELSE IF Truthy(t90) /\ v[1] >= t90[1] THEN "ELEVATED"
    ELSE IF Truthy(t95) /\ v[1] >= t95[1] THEN "HIGH"
    ELSE IF Truthy(t97) /\ v[1] >= t97[1] THEN "CRITICAL"
    ELSE "NORMAL"

\* A plausible slip: a value equal to a threshold stays in the tier below.
alert_level_strict(v, t90, t95, t97) ==
    IF v = Null THEN "UNKNOWN"
    ELSE IF Truthy(t97) /\ v[1] > t97[1] THEN "CRITICAL"
    ELSE IF Truthy(t95) /\ v[1] > t95[1] THEN "HIGH"
    ELSE IF Truthy(t90) /\ v[1] > t90[1] THEN "ELEVATED"
    ELSE "NORMAL"

\* A plausible slip: the test for ELEVATED is written the wrong way round.
alert_level_elevated_below(v, t90, t95, t97) ==
    IF v = Null THEN "UNKNOWN"
    ELSE IF Truthy(t97) /\ v[1] >= t97[1] THEN "CRITICAL"
    ELSE IF Truthy(t95) /\ v[1] >= t95[1] THEN "HIGH"
    ELSE IF Truthy(t90) /\ v[1] <= t90[1] THEN "ELEVATED"
    ELSE "NORMAL"

\* The tier alert_level returns (its colour and CSS class follow the tier).
alert_level(v, t90, t95, t97) ==
    IF v = Null THEN "UNKNOWN"
    ELSE IF Truthy(t97) /\ v[1] >= t97[1] THEN "CRITICAL"
    ELSE IF Truthy(t95) /\ v[1] >= t95[1] THEN "HIGH"
    ELSE IF Truthy(t90) /\ v[1] >= t90[1] THEN "ELEVATED"
    ELSE "NORMAL"

\* None, or a number 0..MaxLevel.
Levels == {Null} \cup {Num(x) : x \in 0..MaxLevel}

\* The cycle's state while the classifier is examined: before any request.
CycleIdle ==
    /\ today = FirstToday
    /\ FEMS_API_KEY = "key"
    /\ FEMS_USERNAME = "user"
    /\ pc = "percentiles"
    /\ attempt = 1
    /\ sleeps = << >>
    /\ sent = 0
    /\ r = << >>
    /\ percentiles = EmptyDict
    /\ climo_means = EmptyDict
    /\ forecasts = EmptyDict
    /\ psa_data = EmptyDict
    /\ output_file = PreviousSnapshot
    /\ forecast_query = << >>
    /\ raised = ""

AlertInit ==
    /\ CycleIdle
    /\ FileIdle
    /\ AppIdle
    /\ TwoIdle
    /\ val \in Levels /\ p90 \in Levels /\ p95 \in Levels /\ p97 \in Levels
    /\ level = << >>

\* lvl, _, cls = alert_level(td_val, p90, p95, p97)
Classify ==
    /\ level = << >>
    /\ level' = <<alert_level(val, p90, p95, p97)>>
    /\ UNCHANGED <<val, p90, p95, p97, cycleVars, fileVars, appVars, twoVars>>

AlertNext == Classify

SpecAlert == AlertInit /\ [][AlertNext]_vars

\* ----------------------------------------------------- json_to_dataframes

\* The keys json_to_dataframes reads of a zone's ERC and FM, and of its
\* ERC_Trend, in the order of its columns.
field_columns == <<"yd", "td", "Wed", "Thu", "Fri", "Sat", "Sun", "Mon",
                   "Climo_Mean", "Pctile_90", "Pctile_97">>
trend_columns == <<"td", "Wed", "Thu", "Fri", "Sat", "Sun", "Mon">>

\* ---------------------------------------------- write_text and a reader

\* The responses with at most one record.
ShortResponses(day) == {<< >>} \cup {<<rec>> : rec \in ForecastRecords(day)}

\* fetch_gacc_data has built output and stands before line 367, the file
\* still holding the text of the earlier snapshot; no load_cached call has
\* read it.
FileInit ==
    /\ AlertIdle
    /\ AppIdle
    /\ TwoIdle
    /\ today \in FirstToday..(FirstToday + NumTodays - 1)
    /\ FEMS_API_KEY = "key"
    /\ FEMS_USERNAME = "user"
    /\ pc = "write"
    /\ attempt = 1
    /\ sleeps = << >>
    /\ sent = 0
    /\ r = << >>
    /\ \E data \in PercentileResponses :
          percentiles = DictUpdate(EmptyDict, ParsePercentiles(data))
    /\ \E data \in ClimoResponses :
          climo_means = DictUpdate(EmptyDict, ParseClimo(data))
    /\ \E data \in ShortResponses(today) :
          forecasts = DictUpdate(EmptyDict, ParseForecast(data))
    /\ psa_data = [z \in Range(PSA_IDS) |->
                      aggregate_to_psa(z, PSA_STATIONS[z], percentiles,
                                       climo_means, forecasts, today)]
    /\ output_file = PreviousSnapshot
    /\ forecast_query = [ids   |-> all_ids,
                         start |-> DateStr(WindowStart(today)),
                         end   |-> DateStr(WindowEnd(today))]
    /\ raised = ""
    /\ file_text = json_dumps(PreviousSnapshot)
    /\ written = 0
    /\ cached = << >>

\* A plausible slip: the file is opened with "a", and keeps what it holds.
OpenAppend ==
    /\ pc = "write"
    /\ pc' = "writing"
    /\ UNCHANGED <<file_text, written, cached>>
    /\ UNCHANGED <<today, FEMS_API_KEY, FEMS_USERNAME, attempt, sleeps, sent, r, percentiles,
                   climo_means, forecasts, psa_data, output_file, forecast_query,
                   raised, alertVars, appVars, twoVars>>

\* Path.write_text opens output_path with "w": the file is cut to nothing.
OpenTruncate ==
    /\ pc = "write"
    /\ file_text' = << >>
    /\ pc' = "writing"
    /\ UNCHANGED <<written, cached>>
    /\ UNCHANGED <<today, FEMS_API_KEY, FEMS_USERNAME, attempt, sleeps, sent, r, percentiles,
                   climo_means, forecasts, psa_data, output_file, forecast_query,
                   raised, alertVars, appVars, twoVars>>

\* f.write(data) and the close: the text reaches the file behind what it
\* holds, at once or in two pieces; with the last piece write_text is over and
\* fetch_gacc_data returns output.
WriteData ==
    /\ pc = "writing"
    /\ LET data == json_dumps(Output)
       IN  \E n \in {Len(data) \div 2, Len(data)} :
              /\ n > written
              /\ file_text' = file_text \o SubSeq(data, written + 1, n)
              /\ written' = n
              /\ pc' = IF n = Len(data) THEN "done" ELSE "writing"
    /\ UNCHANGED cached
    /\ UNCHANGED <<today, FEMS_API_KEY, FEMS_USERNAME, attempt, sleeps, sent, r, percentiles,
                   climo_means, forecasts, psa_data, output_file, forecast_query,
                   raised, alertVars, appVars, twoVars>>

\* load_cached in another session: CACHE_FILE.read_text(), whenever it runs.
ReadCached ==
    /\ cached = << >>
    /\ cached' = <<file_text>>
    /\ UNCHANGED <<file_text, written, cycleVars, alertVars, appVars, twoVars>>

FileNext ==
    \/ OpenTruncate
    \/ WriteData
    \/ ReadCached

SpecFile == FileInit /\ [][FileNext]_vars

\* ------------------------------------------------------------- app.py main

\* What gacc_config.py gives for the region of this model.
GACC_CONFIG ==
    [g \in {"Great Basin"} |->
        [abbrev |-> "GB", psas |-> [z \in Range(PSA_IDS) |-> z]]]

\* What gacc_climo_baseline.json holds when it is there and is JSON.
BaselineStore ==
    [meta |-> [climo_start |-> 2005, climo_end |-> 2020],
     psa  |-> [k \in {<<"Great Basin", z>> : z \in Range(PSA_IDS)} |->
                  [erc |-> [p90 |-> 50 * Unit, p95 |-> 55 * Unit, p97 |-> 60 * Unit]]]]

\* main is called: neither file has been looked at.
AppInit ==
    /\ AlertIdle
    /\ FileIdle
    /\ TwoIdle
    /\ today \in FirstToday..(FirstToday + NumTodays - 1)
    /\ FEMS_API_KEY = ""
    /\ FEMS_USERNAME = ""
    /\ pc = "percentiles"
    /\ attempt = 1
    /\ sleeps = << >>
    /\ sent = 0
    /\ r = << >>
    /\ percentiles = EmptyDict
    /\ climo_means = EmptyDict
    /\ forecasts = EmptyDict
    /\ psa_data = EmptyDict
    /\ output_file = PreviousSnapshot
    /\ forecast_query = << >>
    /\ raised = ""
    /\ app_pc = "load_gacc_config"
    /\ config_file \in {"missing", "present"}
    /\ baseline_file \in {"missing", "unreadable", "present"}
    /\ gacc_config = << >>
    /\ baseline = << >>
    /\ api_key = ""
    /\ username = ""
    /\ dummy_meta = << >>
    /\ source = ""
    /\ fetches = 0
    /\ main_raised = ""

\* gacc_config = load_gacc_config(); if not gacc_config: st.error(...); st.stop()
LoadGaccConfig ==
    /\ app_pc = "load_gacc_config"
    /\ IF config_file = "missing"
       THEN gacc_config' = <<EmptyDict>> /\ app_pc' = "stopped"
       ELSE gacc_config' = <<GACC_CONFIG>> /\ app_pc' = "load_baseline"
    /\ UNCHANGED <<config_file, baseline_file, baseline, api_key, username, dummy_meta,
                   source, fetches, main_raised>>
    /\ UNCHANGED <<cycleVars, alertVars, fileVars, twoVars>>

\* load_baseline(): {} when the file does not exist, else
\* json.loads(p.read_text()), which raises for a text that is no JSON.
load_baseline(state) ==
    CASE state = "missing"    -> [returns |-> EmptyDict]
      [] state = "unreadable" -> [raises |-> "JSONDecodeError"]
      [] state = "present"    -> [returns |-> BaselineStore]

\* baseline = load_baseline(); an exception of it leaves main.
LoadBaseline ==
    /\ app_pc = "load_baseline"
    /\ LET res == load_baseline(baseline_file)
       IN  IF "raises" \in DOMAIN res
           THEN /\ main_raised' = res.raises
                /\ app_pc' = "raised"
                /\ UNCHANGED baseline
           ELSE /\ baseline' = <<res.returns>>
                /\ app_pc' = "creds"
                /\ UNCHANGED main_raised
    /\ UNCHANGED <<config_file, baseline_file, gacc_config, api_key, username, dummy_meta,
                   source, fetches>>
    /\ UNCHANGED <<cycleVars, alertVars, fileVars, twoVars>>

\* api_key, username = _creds(); if not api_key: ...; st.stop()
Creds ==
    /\ app_pc = "creds"
    /\ \E creds \in {<<"", "">>, <<"key", "">>, <<"key", "user">>} :
          /\ api_key' = creds[1]
          /\ username' = creds[2]
          /\ app_pc' = IF creds[1] = "" THEN "stopped" ELSE "sidebar"
    /\ UNCHANGED <<config_file, baseline_file, gacc_config, baseline, dummy_meta,
                   source, fetches, main_raised>>
    /\ UNCHANGED <<cycleVars, alertVars, fileVars, twoVars>>

\* dummy_meta, build_sidebar(...), source = 'cached', and the test of
\* _cache_fresh() that chooses between load_live and load_cached.
Sidebar ==
    /\ app_pc = "sidebar"
    /\ dummy_meta' =
          [fetch_date  |-> DateStr(today),
           climo_start |-> Get(Get(baseline[1], "meta", EmptyDict), "climo_start", 2005),
           climo_end   |-> Get(Get(baseline[1], "meta", EmptyDict), "climo_end", 2020)]
    /\ source' = "cached"
    /\ \E cache_fresh \in BOOLEAN :
          app_pc' = IF cache_fresh THEN "load_cached" ELSE "load_live"
    /\ UNCHANGED <<config_file, baseline_file, gacc_config, baseline, api_key, username,
                   fetches, main_raised>>
    /\ UNCHANGED <<cycleVars, alertVars, fileVars, twoVars>>

\* load_live sets the fetcher's credentials and starts a fetch cycle, which
\* returns a snapshot or raises; next is where main goes on when it raises.
load_live(next) ==
    /\ FEMS_API_KEY' = api_key
    /\ FEMS_USERNAME' = username
    /\ fetches' = fetches + 1
    /\ \E ok \in BOOLEAN :
          IF ok THEN source' = "live" /\ app_pc' = "render"
          ELSE UNCHANGED source /\ app_pc' = next
    /\ UNCHANGED <<today, pc, attempt, sleeps, sent, r, percentiles, climo_means,
                   forecasts, psa_data, output_file, forecast_query, raised>>

\* load_cached reads the snapshot file or raises.
load_cached(next) ==
    /\ \E ok \in BOOLEAN : app_pc' = IF ok THEN "render" ELSE next
    /\ UNCHANGED <<source, fetches, cycleVars>>

\* The cache is stale: load_live; when it raises and the cache is fresh by
\* now, load_cached, else st.stop().
LoadLive ==
    /\ app_pc = "load_live"
    /\ \E cache_fresh \in BOOLEAN :
          load_live(IF cache_fresh THEN "cache_after_live" ELSE "stopped")
    /\ UNCHANGED <<config_file, baseline_file, gacc_config, baseline, api_key, username,
                   dummy_meta, main_raised>>
    /\ UNCHANGED <<alertVars, fileVars, twoVars>>

CachedAfterLive ==
    /\ app_pc = "cache_after_live"
    /\ load_cached("stopped")
    /\ UNCHANGED <<config_file, baseline_file, gacc_config, baseline, api_key, username,
                   dummy_meta, main_raised>>
    /\ UNCHANGED <<alertVars, fileVars, twoVars>>

\* The cache is fresh: load_cached; when it raises, load_live, and st.stop()
\* when that raises too.
LoadCached ==
    /\ app_pc = "load_cached"
    /\ load_cached("live_after_cache")
    /\ UNCHANGED <<config_file, baseline_file, gacc_config, baseline, api_key, username,
                   dummy_meta, main_raised>>
    /\ UNCHANGED <<alertVars, fileVars, twoVars>>

LiveAfterCached ==
    /\ app_pc = "live_after_cache"
    /\ load_live("stopped")
    /\ UNCHANGED <<config_file, baseline_file, gacc_config, baseline, api_key, username,
                   dummy_meta, main_raised>>
    /\ UNCHANGED <<alertVars, fileVars, twoVars>>

AppNext ==
    \/ LoadGaccConfig
    \/ LoadBaseline
    \/ Creds
    \/ Sidebar
    \/ LoadLive
    \/ CachedAfterLive
    \/ LoadCached
    \/ LiveAfterCached

SpecApp == AppInit /\ [][AppNext]_vars

\* ------------------------------------------------ two cycles in one process

\* Two load_live calls that run side by side in the process of the dashboard
\* (two sessions, each in its thread), on the same fems_fetcher module and the
\* same output_path.
Cycles == {1, 2}

\* The api_key and username a load_live call may be given.
Accounts ==
    { [api_key |-> "key", username |-> "ann"],
      [api_key |-> "key2", username |-> "bob"] }

\* The forecast bodies of this part: a record of today for the first station
\* of the first zone and one for the station of the last zone, with an ERC of
\* 10.25 in both or of 10.75 in both.
TwoResponses(day) ==
    { [i \in 1..2 |->
          [station_id   |-> IF i = 1 THEN all_ids[1] ELSE all_ids[Len(all_ids)],
           summary_date |-> DateStr(day),
           energy_release_component_max |-> x,
           hun_hr_tl_fuel_moisture_min  |-> Num(200),
           nfdr_type    |-> "O"]] : x \in {Num(205), Num(215)} }

\* The text of a file after `piece` was written at position pos of it: what
\* lies there is overwritten, a gap before pos reads as NUL characters.
pwrite(text, pos, piece) ==
    LET last == pos + Len(piece)
        n    == IF Len(text) > last THEN Len(text) ELSE last
    IN  [k \in 1..n |->
            IF k > pos /\ k <= last THEN piece[k - pos]
            ELSE IF k <= Len(text) THEN text[k]
            ELSE Tok("NUL")]

\* Both calls have been made and stand before their first statement; the file
\* holds the text of the earlier snapshot.
TwoInit ==
    /\ AlertIdle
    /\ AppIdle
    /\ today = FirstToday
    /\ FEMS_API_KEY = ""
    /\ FEMS_USERNAME = ""
    /\ pc = "percentiles"
    /\ attempt = 1
    /\ sleeps = << >>
    /\ sent = 0
    /\ r = << >>
    /\ percentiles = EmptyDict
    /\ climo_means = EmptyDict
    /\ forecasts = EmptyDict
    /\ psa_data = EmptyDict
    /\ output_file = PreviousSnapshot
    /\ forecast_query = << >>
    /\ raised = ""
    /\ file_text = json_dumps(PreviousSnapshot)
    /\ written = 0
    /\ cached = << >>
    /\ cyc_pc = [i \in Cycles |-> "set_key"]
    /\ cyc_args \in [Cycles -> Accounts]
    /\ cyc_headers = [i \in Cycles |-> {}]
    /\ cyc_output = [i \in Cycles |-> << >>]
    /\ cyc_pos = [i \in Cycles |-> 0]

\* What a step of call i leaves alone besides its own position.
TwoFrame ==
    UNCHANGED <<today, pc, attempt, sleeps, sent, r, percentiles, climo_means,
                forecasts, psa_data, output_file, forecast_query, raised,
                written, cached, cyc_args, alertVars, appVars>>

\* ff.FEMS_API_KEY = api_key
SetApiKey(i) ==
    /\ cyc_pc[i] = "set_key"
    /\ FEMS_API_KEY' = cyc_args[i].api_key
    /\ cyc_pc' = [cyc_pc EXCEPT ![i] = "set_user"]
    /\ UNCHANGED <<FEMS_USERNAME, file_text, cyc_headers, cyc_output, cyc_pos>>
    /\ TwoFrame

\* ff.FEMS_USERNAME = username
SetUsername(i) ==
    /\ cyc_pc[i] = "set_user"
    /\ FEMS_USERNAME' = cyc_args[i].username
    /\ cyc_pc' = [cyc_pc EXCEPT ![i] = "percentiles"]
    /\ UNCHANGED <<FEMS_API_KEY, file_text, cyc_headers, cyc_output, cyc_pos>>
    /\ TwoFrame

\* _headers(): the credentials the module holds when the request is made.
headers ==
    [x_api_key |-> FEMS_API_KEY, x_user_email |-> FEMS_USERNAME]

\* The percentile and the climatology request of call i, answered at once.
PostQuery(i) ==
    /\ cyc_pc[i] \in {"percentiles", "climo"}
    /\ cyc_headers' = [cyc_headers EXCEPT ![i] = @ \cup {headers}]
    /\ cyc_pc' = [cyc_pc EXCEPT ![i] = IF @ = "percentiles" THEN "climo"
                                       ELSE "forecasts"]
    /\ UNCHANGED <<FEMS_API_KEY, FEMS_USERNAME, file_text, cyc_output, cyc_pos>>
    /\ TwoFrame

\* The forecast request of call i, answered at once, and the aggregation of
\* what the three requests gave into the call's output.
PostForecast(i) ==
    /\ cyc_pc[i] = "forecasts"
    /\ cyc_headers' = [cyc_headers EXCEPT ![i] = @ \cup {headers}]
    /\ \E p \in PercentileResponses : \E c \in ClimoResponses :
       \E data \in TwoResponses(today) :
          cyc_output' = [cyc_output EXCEPT ![i] =
              <<Snapshot(today,
                    [z \in Range(PSA_IDS) |->
                        aggregate_to_psa(z, PSA_STATIONS[z], ParsePercentiles(p),
                                         ParseClimo(c), ParseForecast(data), today)])>>]
    /\ cyc_pc' = [cyc_pc EXCEPT ![i] = "write"]
    /\ UNCHANGED <<FEMS_API_KEY, FEMS_USERNAME, file_text, cyc_pos>>
    /\ TwoFrame

\* write_text of call i opens output_path with "w": the file is cut to
\* nothing, the call's position in it is 0.
TwoOpen(i) ==
    /\ cyc_pc[i] = "write"
    /\ file_text' = << >>
    /\ cyc_pos' = [cyc_pos EXCEPT ![i] = 0]
    /\ cyc_pc' = [cyc_pc EXCEPT ![i] = "writing"]
    /\ UNCHANGED <<FEMS_API_KEY, FEMS_USERNAME, cyc_headers, cyc_output>>
    /\ TwoFrame

\* f.write(data) and the close of call i: its text reaches the file at the
\* call's position, at once or in two pieces.
TwoWrite(i) ==
    /\ cyc_pc[i] = "writing"
    /\ LET data == json_dumps(cyc_output[i][1])
       IN  \E n \in {Len(data) \div 2, Len(data)} :
              /\ n > cyc_pos[i]
              /\ file_text' = pwrite(file_text, cyc_pos[i],
                                     SubSeq(data, cyc_pos[i] + 1, n))
              /\ cyc_pos' = [cyc_pos EXCEPT ![i] = n]
              /\ cyc_pc' = [cyc_pc EXCEPT ![i] = IF n = Len(data) THEN "done"
                                                 ELSE "writing"]
    /\ UNCHANGED <<FEMS_API_KEY, FEMS_USERNAME, cyc_headers, cyc_output>>
    /\ TwoFrame

TwoNext ==
    \E i \in Cycles :
        \/ SetApiKey(i)
        \/ SetUsername(i)
        \/ PostQuery(i)
        \/ PostForecast(i)
        \/ TwoOpen(i)
        \/ TwoWrite(i)

SpecTwo == TwoInit /\ [][TwoNext]_vars

\* ----------------------------------------------------------- the claims

\* The zones aggregated so far.
Zones == DOMAIN psa_data

\* The member stations of zone z that are keys of forecasts.
Returning(z) == Range(PSA_STATIONS[z]) \cap DOMAIN forecasts

\* The valid readings of zone z for label L: the places <<station, index>> of
\* the fetched records of member stations that are dated as the snapshot dates
\* L and whose value of `key` is above 0.
ValidObs(z, L, key) ==
    { p \in UNION { {<<sid, i>> : i \in 1..Len(forecasts[sid])} : sid \in Returning(z) } :
        /\ forecasts[p[1]][p[2]].date = psa_data[z].day_labels[L]
        /\ forecasts[p[1]][p[2]][key] > 0 }

RECURSIVE SumObs(_, _)
SumObs(P, key) ==
    IF P = {} THEN 0
    ELSE LET p == CHOOSE q \in P : TRUE
         IN  forecasts[p[1]][p[2]][key] + SumObs(P \ {p}, key)

\* x is the mean of the readings P of `key`, rounded to one decimal: a
\* multiple of 0.1 at most 0.05 from sum/n.
IsRoundedMean(x, P, key) ==
    /\ x % (Unit \div 10) = 0
    /\ 2 * Abs(Cardinality(P) * x - SumObs(P, key)) * 10 <= Cardinality(P) * Unit

\* C1: for every zone and day label with at least one valid ERC reading
\* (> 0) of a member station on the label's date, the published ERC value is
\* the arithmetic mean of exactly those readings, rounded to one decimal.
C1_ErcIsRoundedMeanOfValid ==
    \A z \in Zones : \A L \in Range(DAY_LABELS) :
        ValidObs(z, L, "erc") # {} =>
            IsRoundedMean(psa_data[z].ERC[L], ValidObs(z, L, "erc"), "erc")

\* C1 happens: two member stations have valid readings on a label's date,
\* beside an invalid one, and the mean had to be rounded.
C1_Witness ==
    \E z \in Zones : \E L \in Range(DAY_LABELS) :
        LET P == ValidObs(z, L, "erc")
        IN  /\ Cardinality({p[1] : p \in P}) = 2
            /\ Cardinality(P) * psa_data[z].ERC[L] # SumObs(P, "erc")

\* C2: with no valid value for a (zone, field, day label) the published value
\* is null, a marker that is no number (0.0 included).
C2_NoDataIsNull ==
    \A z \in Zones : \A L \in Range(DAY_LABELS) :
        /\ ValidObs(z, L, "erc") = {} => psa_data[z].ERC[L] \notin Int
        /\ ValidObs(z, L, "fm") = {}  => psa_data[z].FM[L] \notin Int

\* Thresholds all present and 0 < p90 < p95 < p97.
Ordered ==
    /\ p90 # Null /\ p95 # Null /\ p97 # Null
    /\ 0 < p90[1] /\ p90[1] < p95[1] /\ p95[1] < p97[1]

\* C3: with 0 < p90 < p95 < p97 and a value v, the tier is CRITICAL iff
\* v >= p97, HIGH iff p95 <= v < p97, ELEVATED iff p90 <= v < p95, NORMAL iff
\* v < p90; a null value gives UNKNOWN whatever the thresholds.
C3_TiersOfOrderedThresholds ==
    level # << >> =>
        /\ val = Null => level[1] = "UNKNOWN"
        /\ (val # Null /\ Ordered) =>
              /\ level[1] = "CRITICAL" <=> val[1] >= p97[1]
              /\ level[1] = "HIGH"     <=> (p95[1] <= val[1] /\ val[1] < p97[1])
              /\ level[1] = "ELEVATED" <=> (p90[1] <= val[1] /\ val[1] < p95[1])
              /\ level[1] = "NORMAL"   <=> val[1] < p90[1]

\* C3 happens: a value between ordered p95 and p97 was classified HIGH.
C3_Witness ==
    /\ level = <<"HIGH">> /\ val # Null /\ Ordered
    /\ p95[1] < val[1] /\ val[1] < p97[1]

\* C4 as claimed: a value at or above any non-null p97 is CRITICAL.
C4_AnyPresentP97 ==
    (level # << >> /\ val # Null /\ p97 # Null /\ val[1] >= p97[1]) =>
        level[1] = "CRITICAL"

\* C4, amended: a value at or above a p97 that is neither null nor 0 is
\* CRITICAL, whatever p90 and p95 are.
C4_NonZeroP97 ==
    (level # << >> /\ val # Null /\ p97 # Null /\ p97[1] # 0 /\ val[1] >= p97[1]) =>
        level[1] = "CRITICAL"

\* C4 happens: CRITICAL with p90 absent and p95 above the value.
C4_Witness ==
    /\ level = <<"CRITICAL">> /\ p90 = Null
    /\ p95 # Null /\ val # Null /\ p97 # Null
    /\ p97[1] > 0 /\ p97[1] <= val[1] /\ val[1] < p95[1]

\* C5: the trend entry of today is exactly 0.0 for every zone and input.
C5_TrendTodayIsZero ==
    \A z \in Zones : psa_data[z].ERC_Trend["td"] = 0

\* C5 happens: a zone with a today's ERC above 0, and one with no data at all.
C5_Witness ==
    /\ \E z \in Zones : psa_data[z].ERC["td"] > 0 /\ psa_data[z].ERC_Trend["td"] = 0
    /\ \E z \in Zones : Returning(z) = {} /\ psa_data[z].ERC_Trend["td"] = 0

\* The labels of the forecast days.
FORECAST_LABELS == {"Wed", "Thu", "Fri", "Sat", "Sun", "Mon"}

\* C6: ERC_Trend[L] of a forecast label L is the zone's ERC average of L minus
\* its ERC average of today, to one decimal; today's average counts as 0 when
\* today has no valid ERC reading.
C6_TrendIsForecastMinusToday ==
    \A z \in Zones : \A L \in FORECAST_LABELS :
        LET today_avg == IF ValidObs(z, "td", "erc") = {} THEN 0
                         ELSE psa_data[z].ERC["td"]
        IN  /\ psa_data[z].ERC_Trend[L] = psa_data[z].ERC[L] - today_avg
            /\ psa_data[z].ERC_Trend[L] % (Unit \div 10) = 0

\* C6 happens: a forecast day above a today that has data, both averaged from
\* valid readings, with the trend the rise between them.
C6_Witness ==
    \E z \in Zones : \E L \in FORECAST_LABELS :
        /\ psa_data[z].ERC["td"] > 0 /\ psa_data[z].ERC[L] > psa_data[z].ERC["td"]
        /\ psa_data[z].ERC_Trend[L] > 0

\* C7: for every today the day map has exactly the eight labels, they resolve
\* to eight pairwise distinct calendar dates, yd is today - 1 and td is today.
C7_EightDistinctDates ==
    \A z \in Zones :
        LET dl == psa_data[z].day_labels
        IN  /\ DOMAIN dl = {"yd", "td", "Wed", "Thu", "Fri", "Sat", "Sun", "Mon"}
            /\ Cardinality({dl[L] : L \in DOMAIN dl}) = 8
            /\ dl["yd"] = DateStr(today - 1)
            /\ dl["td"] = DateStr(today)

\* C7 happens: a day map built on a Friday whose dates run over the turn of
\* the year.
C7_Witness ==
    \E z \in Zones :
        /\ weekday(today) = 4
        /\ psa_data[z].day_labels["td"][1] < psa_data[z].day_labels["Fri"][1]

\* C8: read in the order yd, td, Wed, Thu, Fri, Sat, Sun, Mon, each label's
\* date is later than the date of the label before it.
C8_DatesIncreaseInLabelOrder ==
    \A z \in Zones : \A i \in 1..(Len(DAY_LABELS) - 1) :
        StrLess(psa_data[z].day_labels[DAY_LABELS[i]],
                psa_data[z].day_labels[DAY_LABELS[i + 1]])

\* C9: the Mon label is a Monday after today and at most 7 days ahead, and it
\* is today + 7 when today is a Monday.
C9_MonIsNextMonday ==
    \A z \in Zones :
        /\ \E d \in (today + 1)..(today + 7) :
              weekday(d) = 0 /\ psa_data[z].day_labels["Mon"] = DateStr(d)
        /\ weekday(today) = 0 =>
              psa_data[z].day_labels["Mon"] = DateStr(today + 7)

\* C9 happens: a day map built on a Monday.
C9_Witness ==
    \E z \in Zones :
        /\ weekday(today) = 0
        /\ psa_data[z].day_labels["Mon"] = DateStr(today + 7)
        /\ psa_data[z].day_labels["Mon"] # psa_data[z].day_labels["td"]

\* C10: in a completed snapshot each zone's station_count is the number of its
\* member stations, stations_with_data the number of member stations the
\* forecast fetch returned records for, and each day value is either the
\* no-data value or the rounded mean of valid readings of those stations.
C10_CoverageCounts ==
    pc = "done" =>
        \A z \in DOMAIN output_file.psa :
            LET row == output_file.psa[z]
            IN  /\ row.station_count = Cardinality(Range(PSA_STATIONS[z]))
                /\ row.stations_with_data = Cardinality(Returning(z))
                /\ \A L \in Range(DAY_LABELS) :
                      /\ \/ ValidObs(z, L, "erc") = {} /\ row.ERC[L] = 0
                         \/ /\ ValidObs(z, L, "erc") # {}
                            /\ IsRoundedMean(row.ERC[L], ValidObs(z, L, "erc"), "erc")
                      /\ \/ ValidObs(z, L, "fm") = {} /\ row.FM[L] = 0
                         \/ /\ ValidObs(z, L, "fm") # {}
                            /\ IsRoundedMean(row.FM[L], ValidObs(z, L, "fm"), "fm")

\* C10 happens: a snapshot was written in which one of the two stations of a
\* zone returned no record and the other one gave today's value, while a
\* station of another zone returned data too.
C10_Witness ==
    /\ pc = "done"
    /\ \E z \in DOMAIN output_file.psa :
          /\ output_file.psa[z].station_count = 2
          /\ output_file.psa[z].stations_with_data = 1
          /\ output_file.psa[z].ERC["td"] > 0
    /\ Cardinality(DOMAIN forecasts) = 2

\* C11: when every attempt of the forecast request has failed with a timeout
\* or a retryable HTTP error, nothing is raised to the caller of the fetch
\* cycle: the stations count as having no data and the cycle goes on.
C11_ExhaustedRetriesNotRaised ==
    pc = "forecasts" => raised \notin {"RuntimeError", "HTTPError"}

\* The responses that report an authorization failure.
AuthFailures == {<<401>>, <<403>>}

\* C12: once a response is a 401 or a 403, PermissionError has been raised on
\* that attempt, with no sleep behind the request that was refused, nothing is
\* sent afterwards and the snapshot file stays as it was.
C12_AuthFailureAborts ==
    /\ [](r \in AuthFailures =>
            /\ raised = "PermissionError"
            /\ Len(sleeps) = sent - 1
            /\ pc # "done"
            /\ output_file = PreviousSnapshot)
    /\ [][(r \in AuthFailures) => (UNCHANGED <<sent, sleeps, output_file>>)]_vars

\* C12 happens: the forecast request was refused with 403 on its second
\* attempt, after two successful queries and one backoff.
C12_Witness ==
    /\ r = <<403>> /\ raised = "PermissionError"
    /\ pc = "forecasts" /\ attempt = 2 /\ sent = 2 /\ sleeps = <<2>>

\* C14: with an empty API key no request is ever sent, no _query call returns,
\* the snapshot file stays as it was, and the cycle can only end with the
\* EnvironmentError of _headers, within the three attempts of the first query.
C14_EmptyKeySendsNothing ==
    FEMS_API_KEY = "" =>
        /\ sent = 0 /\ r = << >>
        /\ pc = "percentiles"
        /\ output_file = PreviousSnapshot
        /\ raised \in {"", "EnvironmentError"}
        /\ attempt \in 1..retries /\ Len(sleeps) = attempt - 1
        /\ raised = "EnvironmentError" => attempt = retries

\* C14 happens: a cycle started with an empty key has ended with the error.
C14_Witness ==
    /\ FEMS_API_KEY = "" /\ raised = "EnvironmentError"
    /\ sent = 0 /\ output_file = PreviousSnapshot

\* C18: a forecast response whose body is empty or no JSON, or whose records
\* lack the station or the date, raises nothing to the caller of the fetch
\* cycle: it counts as no data.
C18_MalformedNotRaised ==
    pc = "forecasts" => raised \notin {"JSONDecodeError", "KeyError"}

\* A step of a running _query call that sends a request: one that fails, or
\* the one whose response the call returns.
Sends == InQuery /\ (sent' = sent + 1 \/ pc' # pc)

\* C20: a _query call sends at most 3 requests; request k + 1 goes out only
\* after k failed ones, each followed by its sleep of 2^k seconds (2, then 4),
\* and there is no sleep and no request behind the third failure.
C20_ThreeRequestsWithBackoff ==
    /\ [](/\ sent <= retries
          /\ Len(sleeps) <= retries - 1
          /\ \A k \in 1..Len(sleeps) : sleeps[k] = 2 ^ k)
    /\ [][Sends => /\ sent < retries
                   /\ FEMS_API_KEY # "" => Len(sleeps) = sent]_vars
    /\ [][raised # "" => (UNCHANGED <<sent, sleeps>>)]_vars

\* C20 happens: three requests timed out, with sleeps of 2 and 4 seconds
\* between them.
C20_Witness ==
    /\ raised = "RuntimeError" /\ sent = 3 /\ sleeps = <<2, 4>>

\* C15: when write_text is over and the cycle has returned output, the file
\* holds the text of output and nothing else: no character of the text it held
\* before is left.
C15_FileIsTheReturnedSnapshot ==
    pc = "done" => file_text = json_dumps(Output)

\* C15 happens: the file held another snapshot, with an ERC that the new one
\* has not, and the write is over.
C15_Witness ==
    /\ pc = "done" /\ written = Len(file_text)
    /\ file_text # json_dumps(PreviousSnapshot)
    /\ PreviousSnapshot.psa["GB13"].ERC["yd"] = 0
    /\ Output.psa["GB13"].ERC["td"] > 0

\* C16: what a load_cached call reads while the cycle writes is the whole
\* text of the previous snapshot or the whole text of the new one.
C16_ReaderSeesWholeSnapshot ==
    cached # << >> =>
        cached[1] \in {json_dumps(PreviousSnapshot), json_dumps(Output)}

\* The keys of a parsed object in text order, and its member of a key.
Keys(node) == [j \in 1..Len(node.obj) |-> node.obj[j][1]]
Member(node, key) ==
    node.obj[CHOOSE j \in 1..Len(node.obj) : node.obj[j][1] = key][2]

\* The keys of a parsed object that are none of the three reference values.
DayKeys(node) ==
    SelectSeq(Keys(node), LAMBDA k : k \notin {"Climo_Mean", "Pctile_90", "Pctile_97"})

\* The zone entries of the written text, parsed.
WrittenZones ==
    LET psa == Member(parse_value(file_text, 1).node, "psa")
    IN  [j \in 1..Len(psa.obj) |-> psa.obj[j][2]]

\* C17: in the written file every zone's ERC and FM carry the eight day labels
\* yd, td, Wed, Thu, Fri, Sat, Sun, Mon in this order (before their reference
\* values), its ERC_Trend the seven labels td, Wed, ..., Mon in this order and
\* no yd, and these are the keys json_to_dataframes reads.
C17_DayLabelKeysInOrder ==
    pc = "done" =>
        \A j \in 1..Len(WrittenZones) :
            LET e == WrittenZones[j]
            IN  /\ DayKeys(Member(e, "ERC")) =
                       <<"yd", "td", "Wed", "Thu", "Fri", "Sat", "Sun", "Mon">>
                /\ DayKeys(Member(e, "FM")) =
                       <<"yd", "td", "Wed", "Thu", "Fri", "Sat", "Sun", "Mon">>
                /\ Keys(Member(e, "ERC_Trend")) =
                       <<"td", "Wed", "Thu", "Fri", "Sat", "Sun", "Mon">>
                /\ Keys(Member(e, "ERC")) = field_columns
                /\ Keys(Member(e, "FM")) = field_columns
                /\ Keys(Member(e, "ERC_Trend")) = trend_columns

\* C17 happens: a file with both zones was written.
C17_Witness ==
    /\ pc = "done" /\ IsJson(file_text)
    /\ Len(WrittenZones) = Len(PSA_IDS)
    /\ \E j \in 1..Len(WrittenZones) :
          to_dict(Member(WrittenZones[j], "ERC"))["td"] > 0

\* C19: json.loads of the text json.dumps wrote for output is output, key by
\* key and value by value; so what load_cached gets of the whole new file is
\* the snapshot the cycle returned, and of the whole old one the earlier one.
C19_LoadsOfDumpsIsSnapshot ==
    /\ json_loads(json_dumps(Output)) = Output
    /\ cached # << >> =>
          /\ cached[1] = json_dumps(Output) => json_loads(cached[1]) = Output
          /\ cached[1] = json_dumps(PreviousSnapshot) =>
                json_loads(cached[1]) = PreviousSnapshot

\* C19 happens: the new file was read back whole, with a falling trend, a day
\* with data and a zone without.
C19_Witness ==
    /\ pc = "done" /\ cached = <<file_text>>
    /\ \E z \in DOMAIN Output.psa : \E L \in FORECAST_LABELS :
          /\ Output.psa[z].ERC_Trend[L] < 0
          /\ json_loads(cached[1]).psa[z].ERC_Trend[L] = Output.psa[z].ERC_Trend[L]
    /\ \E z \in DOMAIN Output.psa : Output.psa[z].stations_with_data = 0

\* C13: when the baseline store cannot be loaded (the file is missing or
\* cannot be read), main starts no fetch cycle and never goes on with an empty
\* baseline: it ends with an error at load_baseline.
C13_NoFetchWithoutBaseline ==
    baseline_file # "present" =>
        /\ fetches = 0
        /\ baseline = << >>
        /\ app_pc \in {"load_gacc_config", "load_baseline", "stopped", "raised"}

\* The readings of zone z for label L that are fuel-moisture values of 0 or
\* above: the places of the fetched records of member stations dated as L.
FmObs(z, L) ==
    { p \in UNION { {<<sid, i>> : i \in 1..Len(forecasts[sid])} : sid \in Returning(z) } :
        /\ forecasts[p[1]][p[2]].date = psa_data[z].day_labels[L]
        /\ forecasts[p[1]][p[2]].fm >= 0 }

\* C21: a fuel-moisture reading of exactly 0 is an input of the zone's mean
\* (0 and 10 average to 5.0): the published FM of a label is the rounded mean
\* of all readings >= 0 of the member stations on its date, while the ERC is
\* the rounded mean of the readings above 0 only.
C21_ZeroFmIsAveraged ==
    \A z \in Zones : \A L \in Range(DAY_LABELS) :
        /\ FmObs(z, L) # {} => IsRoundedMean(psa_data[z].FM[L], FmObs(z, L), "fm")
        /\ ValidObs(z, L, "erc") # {} =>
              IsRoundedMean(psa_data[z].ERC[L], ValidObs(z, L, "erc"), "erc")

\* The three station fetches of the cycle have returned, and no request is
\* under way.
FetchesDone ==
    /\ pc \in {"aggregate", "write", "done"}
    /\ percentiles # EmptyDict /\ climo_means # EmptyDict
    /\ forecast_query # << >>
    /\ sent = 0 /\ r = << >>

\* The steps of fetch_gacc_data, in the order of its text.
Stage(at) ==
    CASE at = "percentiles" -> 1
      [] at = "climo"       -> 2
      [] at = "forecasts"   -> 3
      [] at = "aggregate"   -> 4
      [] at = "write"       -> 5
      [] at = "done"        -> 6

\* C22: a zone is aggregated only when the percentile, the climatology and the
\* forecast fetch have all returned, and nothing is fetched afterwards; the
\* snapshot is written only when every zone has been aggregated, and no zone
\* is aggregated afterwards.
C22_FetchThenAggregateThenWrite ==
    /\ [](Stage(pc) <= 3 => psa_data = EmptyDict)
    /\ [](psa_data # EmptyDict => FetchesDone)
    /\ [](pc = "aggregate" => DOMAIN psa_data # Range(PSA_IDS))
    /\ [](pc \in {"write", "done"} => DOMAIN psa_data = Range(PSA_IDS))
    /\ [][pc # "write" => (UNCHANGED output_file)]_vars
    /\ [](pc = "done" => /\ output_file = Output
                         /\ DOMAIN output_file.psa = Range(PSA_IDS))
    /\ [][Stage(pc') \in {Stage(pc), Stage(pc) + 1}]_vars
    /\ [][Stage(pc) >= 4 =>
            (UNCHANGED <<percentiles, climo_means, forecasts, forecast_query>>)]_vars
    /\ [][Stage(pc) >= 5 => (UNCHANGED psa_data)]_vars

\* C22 happens: the snapshot of a cycle whose forecast fetch returned data for
\* both zones has replaced the earlier one.
C22_Witness ==
    /\ pc = "done" /\ output_file = Output /\ output_file # PreviousSnapshot
    /\ \A z \in Range(PSA_IDS) : output_file.psa[z].stations_with_data > 0

\* The list s in every order.
Orders(s) ==
    { [i \in 1..Len(s) |-> s[perm[i]]] : perm \in Permutations(1..Len(s)) }

\* The dicts that hold the records of f, each station's list in any order.
Reordered(f) ==
    { g \in [DOMAIN f -> UNION {Orders(f[sid]) : sid \in DOMAIN f}] :
        \A sid \in DOMAIN f : g[sid] \in Orders(f[sid]) }

\* C23: what aggregate_to_psa gave for each zone of the cycle (day values,
\* reference values, trend, counts) is what it gives for every order of the
\* zone's station list and every order of the records merged for each station.
C23_AggregationIgnoresOrder ==
    [](pc = "write" =>
        \A z \in Zones :
            \A station_ids \in Orders(PSA_STATIONS[z]) : \A f \in Reordered(forecasts) :
                aggregate_to_psa(z, station_ids, percentiles, climo_means, f, today)
                    = psa_data[z])

\* C23 happens: the zones are aggregated, one of them from two stations that
\* gave different valid ERC readings for the same label.
C23_Witness ==
    pc = "write" /\ \E z \in Zones : \E L \in Range(DAY_LABELS) :
        \E p, q \in ValidObs(z, L, "erc") :
            /\ p[1] # q[1]
            /\ forecasts[p[1]][p[2]].erc # forecasts[q[1]][q[2]].erc

\* C26: every date of a zone's day map lies in the range of dates the forecast
\* request of the same cycle asked the service for (start: today - 1, end: next
\* Monday), on every weekday.
C26_DayMapInsideWindow ==
    \A z \in Zones : \A L \in Range(DAY_LABELS) :
        /\ forecast_query # << >>
        /\ ~StrLess(psa_data[z].day_labels[L], forecast_query.start)
        /\ ~StrLess(forecast_query.end, psa_data[z].day_labels[L])

\* The stations the readings P are of.
StationsOf(P) == {p[1] : p \in P}

\* C29: each member station gives at most one value to a label's average,
\* also when it has more than one record for the date: the published ERC is
\* the rounded mean of one valid reading of each station that has any.
C29_OneValuePerStation ==
    \A z \in Zones : \A L \in Range(DAY_LABELS) :
        LET P == ValidObs(z, L, "erc")
        IN  P # {} =>
               \E Q \in SUBSET P :
                  /\ StationsOf(Q) = StationsOf(P)
                  /\ Cardinality(Q) = Cardinality(StationsOf(P))
                  /\ IsRoundedMean(psa_data[z].ERC[L], Q, "erc")

\* C27: a cycle that ended with an error has left the snapshot file as it was;
\* the file changes only in the write that ends a cycle in which every fetch
\* and every aggregation succeeded, and never again in that cycle.
C27_FailedCycleLeavesFile ==
    /\ [](raised # "" => output_file = PreviousSnapshot)
    /\ [][pc # "write" => (UNCHANGED output_file)]_vars
    /\ [][output_file' # output_file =>
            /\ raised = "" /\ raised' = ""
            /\ pc = "write" /\ pc' = "done"
            /\ FetchesDone /\ DOMAIN psa_data = Range(PSA_IDS)]_vars
    /\ [][pc = "done" => (UNCHANGED output_file)]_vars

\* C27 happens: a cycle ended with the third timeout of its forecast request,
\* after two fetches that returned, the file of the earlier cycle still there.
C27_Witness ==
    /\ output_file = PreviousSnapshot
    /\ raised = "RuntimeError" /\ pc = "forecasts" /\ sent = retries
    /\ percentiles # EmptyDict /\ climo_means # EmptyDict

\* A step in which the running _query call returns its data to the fetch
\* function, which stores what it parsed of it.
QueryReturns == InQuery /\ pc' # pc

\* A step in which an attempt of the running _query call fails.
AttemptFails == InQuery /\ pc' = pc /\ (attempt' # attempt \/ raised' # raised)

\* C28: a _query call returns only out of one of its three attempts that was
\* answered (a key was there to send, no exception is pending), and what the
\* fetch function stores is parsed from a body the service gave; a failed
\* attempt returns nothing, the third failed attempt ends the call with an
\* exception, and a call that has raised never returns: no result, empty or
\* partial, of a failed call reaches the fetch functions.
C28_ReturnsOnlyFromSuccess ==
    /\ [][QueryReturns =>
            /\ FEMS_API_KEY # "" /\ raised' = "" /\ attempt \in 1..retries
            /\ pc = "percentiles" =>
                  \E data \in PercentileResponses :
                      percentiles' = DictUpdate(percentiles, ParsePercentiles(data))
            /\ pc = "climo" =>
                  \E data \in ClimoResponses :
                      climo_means' = DictUpdate(climo_means, ParseClimo(data))
            /\ pc = "forecasts" =>
                  /\ forecast_query' # << >>
                  /\ DOMAIN forecasts' \subseteq Range(forecast_query'.ids)]_vars
    /\ [][AttemptFails =>
            /\ UNCHANGED <<percentiles, climo_means, forecasts, output_file>>
            /\ (attempt = retries) => (raised' # "")]_vars
    /\ [][raised # "" =>
            (UNCHANGED <<pc, percentiles, climo_means, forecasts, output_file>>)]_vars
    /\ [](raised = "" => attempt <= retries)

\* C28 happens: the third attempt of the forecast request was answered with a
\* 503, as the two before it, and the call has raised.
C28_Witness ==
    /\ raised = "HTTPError" /\ r = <<503>> /\ sent = retries /\ attempt = retries
    /\ pc = "forecasts" /\ forecasts = EmptyDict

\* How severe a tier is.
Severity(tier) ==
    CASE tier = "NORMAL"   -> 0
      [] tier = "ELEVATED" -> 1
      [] tier = "HIGH"     -> 2
      [] tier = "CRITICAL" -> 3

\* C30: whatever the thresholds (present, absent, 0, in any order), the tier
\* of a value is at most as severe as the tier of every value that is not
\* below it.
C30_TierMonotoneInValue ==
    (level # << >> /\ val # Null) =>
        \A v2 \in Levels \ {Null} :
            v2[1] >= val[1] =>
                Severity(level[1]) <= Severity(alert_level(v2, p90, p95, p97))

\* C30 happens: with p97 below p90, p95 absent, a value between them was
\* classified, and a value at p90 is classified too.
C30_Witness ==
    /\ level = <<"CRITICAL">> /\ val # Null
    /\ p95 = Null /\ p90 # Null /\ p97 # Null
    /\ 0 < p97[1] /\ p97[1] <= val[1] /\ val[1] < p90[1]
    /\ alert_level(p90, p90, p95, p97) = "CRITICAL"

\* C24: every request of a load_live call carries the api_key and the
\* username that call was given, also while the other call runs.
C24_RequestsCarryOwnCredentials ==
    \A i \in DOMAIN cyc_headers : \A h \in cyc_headers[i] :
        /\ h.x_api_key = cyc_args[i].api_key
        /\ h.x_user_email = cyc_args[i].username

\* C25: when both cycles have written, the file holds the whole text of the
\* output of one of them.
C25_FileIsOneWholeSnapshot ==
    (cyc_pc # << >> /\ \A i \in Cycles : cyc_pc[i] = "done") =>
        \E i \in Cycles : file_text = json_dumps(cyc_output[i][1])

=============================================================================
